---- MODULE Spec2Model ----
(***************************************************************************)
(* State-machine model of src/predictive_analysis.py: the four online      *)
(* estimators EMAForecaster, Kalman1D, ETAPredictor and RiskHeatmap.       *)
(*                                                                         *)
(* Python floats are modelled as exact rationals <<num, den>> (den > 0, in *)
(* lowest terms), so every statement below is about the arithmetic the     *)
(* code writes down, not about IEEE-754 rounding.  Python's None is the    *)
(* pair <<0, 0>>, which is no rational.                                    *)
(*                                                                         *)
(* Each estimator is an independent object, so each gets a specification   *)
(* of its own (SpecEMA, SpecKalman, SpecETA, SpecGrid) in which the other  *)
(* three objects are constructed and then left alone.                      *)
(***************************************************************************)
EXTENDS Integers, Sequences, FiniteSets

VARIABLES
    ema_alpha,    \* EMAForecaster.alpha
    ema_level,    \* EMAForecaster._level (None until the first update)
    ema_n,        \* number of update() calls made on the forecaster
    ema_ret,      \* the last EMAForecaster call: level before, arguments, outcome
    kal_q,        \* Kalman1D.q
    kal_r,        \* Kalman1D.r
    kal_x,        \* Kalman1D.x (None until the first update)
    kal_p,        \* Kalman1D.p
    kal_p0,       \* the p the Kalman1D instance was constructed with
    kal_n,        \* number of update() calls made on the filter
    kal_ret,      \* the last Kalman1D.update call: p before, z, gain k, result
    eta_window,   \* ETAPredictor.window
    eta_speeds,   \* ETAPredictor._speeds, oldest first
    eta_hist,     \* every speed_mps passed to update_speed, in call order
    eta_ret,      \* the last ETAPredictor call: speeds before, arguments, outcome
    rows,         \* RiskHeatmap.rows
    cols,         \* RiskHeatmap.cols
    decay_per_sec,\* RiskHeatmap.decay_per_sec
    grid,         \* RiskHeatmap._grid, grid[r][c] with 0-based r, c
    last_ts,      \* RiskHeatmap._last_ts
    grid_n,       \* number of reinforce()/get() calls made on the heatmap
    grid_ret      \* the last RiskHeatmap call: grid and _last_ts before, clock
                  \* reading, dt, arguments

emaVars  == <<ema_alpha, ema_level, ema_n, ema_ret>>
kalVars  == <<kal_q, kal_r, kal_x, kal_p, kal_p0, kal_n, kal_ret>>
etaVars  == <<eta_window, eta_speeds, eta_hist, eta_ret>>
gridVars == <<rows, cols, decay_per_sec, grid, last_ts, grid_n, grid_ret>>
vars     == <<emaVars, kalVars, etaVars, gridVars>>

----------------------------------------------------------------------------
(* Bounds of the model. *)

\* update() calls made on one EMAForecaster / Kalman1D instance
MaxUpdates == 3
\* update_speed() calls made on one ETAPredictor instance
MaxSamples == 4
\* reinforce()/get() calls made on one RiskHeatmap instance
MaxOps == 3
\* clock readings are whole seconds 0..MaxTime
MaxTime == 2

----------------------------------------------------------------------------
(* Exact rational arithmetic standing for Python's float arithmetic. *)

None == <<0, 0>>

Abs(i) == IF i < 0 THEN -i ELSE i

RECURSIVE GCD(_, _)
GCD(a, b) == IF b = 0 THEN a ELSE GCD(b, a % b)

\* n/d in lowest terms with a positive denominator (d # 0)
Norm(n, d) ==
    LET g == GCD(Abs(n), Abs(d))
        s == IF d < 0 THEN -1 ELSE 1
    IN  <<(s * n) \div g, (s * d) \div g>>

R(i) == <<i, 1>>
Zero == R(0)
One  == R(1)

RAdd(a, b) == Norm(a[1] * b[2] + b[1] * a[2], a[2] * b[2])
RSub(a, b) == Norm(a[1] * b[2] - b[1] * a[2], a[2] * b[2])
RMul(a, b) == Norm(a[1] * b[1], a[2] * b[2])
\* a / b, for b # 0 (Python raises ZeroDivisionError otherwise)
RDiv(a, b) == Norm(a[1] * b[2], a[2] * b[1])
RLe(a, b)  == a[1] * b[2] <= b[1] * a[2]
RLt(a, b)  == a[1] * b[2] <  b[1] * a[2]
RMax(a, b) == IF RLt(a, b) THEN b ELSE a
RAbs(a)    == <<Abs(a[1]), a[2]>>

----------------------------------------------------------------------------
(* 1) EMAForecaster *)

\* smoothing factors an instance is constructed with: the default 0.3, values
\* inside (0,1), the end point 1 and a value above 1 (the code checks nothing)
Alphas == {<<3, 10>>, <<1, 2>>, One, <<3, 2>>}
\* observations fed to update()
Values == {R(-2), Zero, R(4)}
\* forecast horizons passed to predict()
Steps == {1, 5}

EMANoCall == [op |-> "none", before |-> None, value |-> None, steps |-> 0,
              raised |-> FALSE, ret |-> None]

EMAInit ==
    /\ ema_alpha \in Alphas
    /\ ema_level = None
    /\ ema_n = 0
    /\ ema_ret = EMANoCall

\* EMANewLevel with the first-call branch lost: an absent level counts as 0.0
EMANewLevelFromZero(alpha, level, value) ==
    RAdd(RMul(alpha, value),
         RMul(RSub(One, alpha), IF level = None THEN Zero ELSE level))

\* the level update() stores: the value itself on the first call, the blend after
EMANewLevel(alpha, level, value) ==
    IF level = None
    THEN value
    ELSE RAdd(RMul(alpha, value), RMul(RSub(One, alpha), level))

EMAUpdate(value) ==
    /\ ema_n < MaxUpdates
    /\ ema_level' = EMANewLevel(ema_alpha, ema_level, value)
    /\ ema_n' = ema_n + 1
    /\ ema_ret' = [op |-> "update", before |-> ema_level, value |-> value,
                   steps |-> 0, raised |-> FALSE, ret |-> ema_level']
    /\ UNCHANGED <<ema_alpha, kalVars, etaVars, gridVars>>

\* EMAPredictRaises testing truthiness (if not self._level): 0.0 raises too
EMAPredictRaisesFalsy(level) == level = None \/ level = Zero

\* whether predict() raises ValueError("No data yet. Call update() first.")
EMAPredictRaises(level) == level = None

\* the level predict() leaves behind (it assigns nothing)
EMAPredictLevel(level, steps) == level

EMAPredict(steps) ==
    /\ ema_level' = EMAPredictLevel(ema_level, steps)
    /\ ema_ret' = [op |-> "predict", before |-> ema_level, value |-> None,
                   steps |-> steps,
                   raised |-> EMAPredictRaises(ema_level),
                   ret |-> IF EMAPredictRaises(ema_level) THEN None ELSE ema_level]
    /\ UNCHANGED <<ema_alpha, ema_n, kalVars, etaVars, gridVars>>

EMANext ==
    \/ \E value \in Values : EMAUpdate(value)
    \/ \E steps \in Steps : EMAPredict(steps)

----------------------------------------------------------------------------
(* 2) Kalman1D *)

\* process / measurement noise an instance is constructed with
Qs == {<<1, 2>>, R(2)}
Rs == {<<1, 2>>, R(2)}
\* initial variance p an instance is constructed with (1.0 is the default)
P0s == {One, R(5)}
\* measurements fed to update()
Zs == {R(-1), Zero, R(3)}

KalNoCall == [op |-> "none", p_before |-> None, z |-> None, k |-> None, ret |-> None]

KalInit ==
    /\ kal_q \in Qs
    /\ kal_r \in Rs
    /\ kal_p0 \in P0s
    /\ kal_p = kal_p0
    /\ kal_x = None
    /\ kal_n = 0
    /\ kal_ret = KalNoCall

\* KalFirstP keeping the variance the instance was constructed with
KalFirstPKeep(p) == p

\* the variance the initialisation branch of update() stores
KalFirstP(p) == One

\* predict step: self.p = self.p + self.q
KalPredictP(p, q) == RAdd(p, q)

\* Kalman gain k = p / (p + r), p being the predicted variance
KalGain(pp, r) == RDiv(pp, RAdd(pp, r))

\* KalPosteriorP with the gain in place of its complement: p = k * p
KalPosteriorPGain(k, pp) == RMul(k, pp)

\* update step: self.p = (1 - k) * self.p
KalPosteriorP(k, pp) == RMul(RSub(One, k), pp)

KalUpdate(z) ==
    /\ kal_n < MaxUpdates
    /\ kal_n' = kal_n + 1
    /\ IF kal_x = None
       THEN /\ kal_x' = z
            /\ kal_p' = KalFirstP(kal_p)
            /\ kal_ret' = [op |-> "update", p_before |-> kal_p, z |-> z,
                           k |-> None, ret |-> z]
       ELSE LET pp == KalPredictP(kal_p, kal_q)
                k  == KalGain(pp, kal_r)
                nx == RAdd(kal_x, RMul(k, RSub(z, kal_x)))
            IN  /\ kal_x' = nx
                /\ kal_p' = KalPosteriorP(k, pp)
                /\ kal_ret' = [op |-> "update", p_before |-> kal_p, z |-> z,
                               k |-> k, ret |-> nx]
    /\ UNCHANGED <<kal_q, kal_r, kal_p0, emaVars, etaVars, gridVars>>

KalNext == \E z \in Zs : KalUpdate(z)

----------------------------------------------------------------------------
(* 3) ETAPredictor *)

\* largest window an instance is constructed with (windows are 1..MaxWindow)
MaxWindow == 3

\* speed samples passed to update_speed()
Speeds == {R(-1), Zero, One, R(2), R(3), R(8)}
\* remaining distances passed to estimate_eta_seconds()
Distances == {R(32), R(100)}
\* min_speed arguments: the default 0.05 and a floor above some of the speeds
MinSpeeds == {<<1, 20>>, R(4)}

ETANoCall == [op |-> "none", before |-> <<>>, speed |-> None, dist |-> None,
              min_speed |-> None, v |-> None, ret |-> None]

ETAInit ==
    /\ eta_window \in 1..MaxWindow
    /\ eta_speeds = <<>>
    /\ eta_hist = <<>>
    /\ eta_ret = ETANoCall

\* max(0.0, float(speed_mps))
ClampSpeed(speed) == RMax(Zero, speed)

\* DequeAppend evicting at the wrong end: a full deque drops its rightmost item
DequeAppendDropNewest(speeds, window, v) ==
    IF Len(speeds) >= window
    THEN Append(SubSeq(speeds, 1, Len(speeds) - 1), v)
    ELSE Append(speeds, v)

\* deque(maxlen=window).append(v): a full deque drops its leftmost item
DequeAppend(speeds, window, v) ==
    IF Len(speeds) >= window
    THEN Append(Tail(speeds), v)
    ELSE Append(speeds, v)

UpdateSpeed(speed) ==
    /\ Len(eta_hist) < MaxSamples
    /\ eta_speeds' = DequeAppend(eta_speeds, eta_window, ClampSpeed(speed))
    /\ eta_hist' = Append(eta_hist, speed)
    /\ eta_ret' = [ETANoCall EXCEPT !.op = "update_speed", !.before = eta_speeds,
                                    !.speed = speed]
    /\ UNCHANGED <<eta_window, emaVars, kalVars, gridVars>>

IsPositive(s) == RLt(Zero, s)

\* sum(inv) for inv = [1.0 / s for s in valid_speeds]
RECURSIVE SumInv(_)
SumInv(valid) ==
    IF valid = <<>> THEN Zero
    ELSE RAdd(RDiv(One, Head(valid)), SumInv(Tail(valid)))

\* EffectiveSpeed with N counting every retained sample: len(self._speeds)
EffectiveSpeedAllSamples(speeds, min_speed) ==
    IF speeds = <<>>
    THEN min_speed
    ELSE LET valid_speeds == SelectSeq(speeds, IsPositive)
         IN  IF valid_speeds = <<>>
             THEN min_speed
             ELSE RMax(RDiv(R(Len(speeds)), SumInv(valid_speeds)), min_speed)

\* the speed v that estimate_eta_seconds divides the distance by
EffectiveSpeed(speeds, min_speed) ==
    IF speeds = <<>>
    THEN min_speed
    ELSE LET valid_speeds == SelectSeq(speeds, IsPositive)
         IN  IF valid_speeds = <<>>
             THEN min_speed
             ELSE RMax(RDiv(R(Len(valid_speeds)), SumInv(valid_speeds)), min_speed)

\* the speeds estimate_eta_seconds leaves behind (it only reads the deque)
EstimateSpeeds(speeds) == speeds

EstimateEtaSeconds(dist, min_speed) ==
    /\ LET v == EffectiveSpeed(eta_speeds, min_speed)
       IN  eta_ret' = [op |-> "estimate", before |-> eta_speeds, speed |-> None,
                       dist |-> dist, min_speed |-> min_speed, v |-> v,
                       ret |-> RDiv(dist, v)]
    /\ eta_speeds' = EstimateSpeeds(eta_speeds)
    /\ UNCHANGED <<eta_window, eta_hist, emaVars, kalVars, gridVars>>

ETANext ==
    \/ \E speed \in Speeds : UpdateSpeed(speed)
    \/ \E dist \in Distances, min_speed \in MinSpeeds : EstimateEtaSeconds(dist, min_speed)

----------------------------------------------------------------------------
(* 4) RiskHeatmap *)

\* grid dimensions <<rows, cols>> an instance is constructed with
Dims == {<<2, 3>>, <<3, 3>>}
\* decay rates an instance is constructed with (all >= 0)
Decays == {Zero, <<1, 2>>, <<3, 2>>}
\* readings of time.time(): any order, so the clock may stand still or go back
Times == 0..MaxTime
\* amounts passed to reinforce()
Amounts == {R(-1), R(5)}
\* cell lists passed to reinforce(): one in-range cell; only out-of-range cells
\* (too large, negative); in-range and out-of-range cells mixed, one repeated
CellLists == { << <<1, 1>> >>,
               << <<99, 99>>, <<-1, 0>> >>,
               << <<1, 1>>, <<2, 0>>, <<0, 2>>, <<1, 1>> >> }

GridNoCall == [op |-> "none", before |-> <<>>, last |-> 0, now |-> 0, dt |-> 0,
               cells |-> <<>>, amount |-> None]

\* [[0.0 for _ in range(cols)] for _ in range(rows)]
ZeroGrid(nr, nc) == [r \in 0..(nr - 1) |-> [c \in 0..(nc - 1) |-> Zero]]

GridInit ==
    /\ \E d \in Dims : rows = d[1] /\ cols = d[2]
    /\ decay_per_sec \in Decays
    /\ grid = ZeroGrid(rows, cols)
    /\ last_ts \in Times
    /\ grid_n = 0
    /\ grid_ret = GridNoCall

\* Elapsed taking the size of the clock difference: dt = abs(now - last)
ElapsedAbs(now, last) == Abs(now - last)

\* dt = max(0.0, now - self._last_ts)
Elapsed(now, last) == IF now - last > 0 THEN now - last ELSE 0

\* DecayFactor without the clamp: 1.0 - self.decay_per_sec * dt
DecayFactorUnclamped(decay, dt) == RSub(One, RMul(decay, R(dt)))

\* decay_factor = max(0.0, 1.0 - self.decay_per_sec * dt)
DecayFactor(decay, dt) == RMax(Zero, RSub(One, RMul(decay, R(dt))))

\* the grid _apply_decay leaves behind after dt seconds
ApplyDecay(g, decay, dt) ==
    IF dt <= 0
    THEN g
    ELSE [r \in DOMAIN g |-> [c \in DOMAIN g[r] |-> RMul(g[r][c], DecayFactor(decay, dt))]]

\* InRange off by one at the lower end: 0 < r < rows and 0 < c < cols
InRangeOffByOne(r, c, nr, nc) == 0 < r /\ r < nr /\ 0 < c /\ c < nc

\* 0 <= r < self.rows and 0 <= c < self.cols
InRange(r, c, nr, nc) == 0 <= r /\ r < nr /\ 0 <= c /\ c < nc

\* the loop of reinforce over cells, in order
RECURSIVE ReinforceCells(_, _, _, _, _)
ReinforceCells(g, cells, amount, nr, nc) ==
    IF cells = <<>> THEN g
    ELSE LET r == Head(cells)[1]
             c == Head(cells)[2]
             g1 == IF InRange(r, c, nr, nc)
                   THEN [g EXCEPT ![r][c] = RAdd(g[r][c], amount)]
                   ELSE g
         IN  ReinforceCells(g1, Tail(cells), amount, nr, nc)

Reinforce(now, cells, amount) ==
    /\ grid_n < MaxOps
    /\ LET dt == Elapsed(now, last_ts)
       IN  /\ grid' = ReinforceCells(ApplyDecay(grid, decay_per_sec, dt),
                                     cells, amount, rows, cols)
           /\ grid_ret' = [op |-> "reinforce", before |-> grid, last |-> last_ts,
                           now |-> now, dt |-> dt, cells |-> cells,
                           amount |-> amount]
    /\ last_ts' = now
    /\ grid_n' = grid_n + 1
    /\ UNCHANGED <<rows, cols, decay_per_sec, emaVars, kalVars, etaVars>>

\* get() returns self._grid itself, so the value returned is grid'
Get(now) ==
    /\ grid_n < MaxOps
    /\ LET dt == Elapsed(now, last_ts)
       IN  /\ grid' = ApplyDecay(grid, decay_per_sec, dt)
           /\ grid_ret' = [GridNoCall EXCEPT !.op = "get", !.before = grid,
                                            !.last = last_ts, !.now = now, !.dt = dt]
    /\ last_ts' = now
    /\ grid_n' = grid_n + 1
    /\ UNCHANGED <<rows, cols, decay_per_sec, emaVars, kalVars, etaVars>>

GridNext ==
    \/ \E now \in Times, cells \in CellLists, amount \in Amounts :
            Reinforce(now, cells, amount)
    \/ \E now \in Times : Get(now)

----------------------------------------------------------------------------------------------------------------------------------------------
(* The specifications: one per estimator.  The four objects share nothing, *)
(* so each specification constructs all four and then calls only its own;  *)
(* every action leaves the other three objects unchanged.                  *)

\* the instances a specification does not exercise, in one fixed construction
EMAIdle  == EMAInit /\ ema_alpha = <<3, 10>>
KalIdle  == KalInit /\ kal_q = <<1, 2>> /\ kal_r = <<1, 2>> /\ kal_p0 = One
ETAIdle  == ETAInit /\ eta_window = 1
GridIdle == GridInit /\ rows = 2 /\ cols = 3 /\ decay_per_sec = Zero /\ last_ts = 0

InitEMA    == EMAInit /\ KalIdle /\ ETAIdle /\ GridIdle
InitKalman == EMAIdle /\ KalInit /\ ETAIdle /\ GridIdle
InitETA    == EMAIdle /\ KalIdle /\ ETAInit /\ GridIdle
InitGrid   == EMAIdle /\ KalIdle /\ ETAIdle /\ GridInit
Init       == EMAInit /\ KalInit /\ ETAInit /\ GridInit

SpecEMA    == InitEMA    /\ [][EMANext]_vars
SpecKalman == InitKalman /\ [][KalNext]_vars
SpecETA    == InitETA    /\ [][ETANext]_vars
SpecGrid   == InitGrid   /\ [][GridNext]_vars

Next == EMANext \/ KalNext \/ ETANext \/ GridNext
Spec == Init /\ [][Next]_vars

----------------------------------------------------------------------------
(* Properties of EMAForecaster (checked under SpecEMA). *)

\* |a - b|
Dist(a, b) == RAbs(RSub(a, b))

\* m lies between a and b (inclusive), whichever of a, b is the larger
Between(a, m, b) == (RLe(a, m) /\ RLe(m, b)) \/ (RLe(b, m) /\ RLe(m, a))

AlphaInOpenUnit == RLt(Zero, ema_alpha) /\ RLt(ema_alpha, One)

\* C2: predict(steps) raises the not-initialized error exactly when update was
\* never called, and then leaves level (absent) and alpha as they were; after
\* at least one update it returns the current level for every steps and does
\* not change the level.
C2_PredictContract ==
    ema_ret.op = "predict" =>
        /\ ema_ret.raised <=> (ema_n = 0)
        /\ ema_level = ema_ret.before
        /\ ema_alpha \in Alphas
        /\ ema_ret.raised => (ema_level = None /\ ema_ret.ret = None)
        /\ ~ema_ret.raised => (ema_level # None /\ ema_ret.ret = ema_level)

\* C2 witness: predict() called on a fresh instance has raised
C2_Witness ==
    /\ ema_ret.op = "predict"
    /\ ema_ret.raised
    /\ ema_n = 0
    /\ ema_level = None

\* C9 as stated: the first update(v) returns exactly v; for alpha in (0,1) every
\* later update(c) puts the level between the previous level and c, and
\* |level - c| strictly decreases.
C9_Original ==
    ema_ret.op = "update" =>
        /\ ema_ret.before = None =>
              (ema_ret.ret = ema_ret.value /\ ema_level = ema_ret.value)
        /\ (AlphaInOpenUnit /\ ema_ret.before # None) =>
              /\ Between(ema_ret.before, ema_level, ema_ret.value)
              /\ RLt(Dist(ema_level, ema_ret.value), Dist(ema_ret.before, ema_ret.value))

\* C9 amended: the first update(v) returns exactly v; for alpha in (0,1) every
\* later update(c) puts the level between the previous level and c, and
\* |level - c| strictly decreases whenever the previous level differs from c;
\* a level already equal to c stays exactly c.
C9_Convergence ==
    ema_ret.op = "update" =>
        /\ ema_ret.ret = ema_level
        /\ ema_ret.before = None =>
              (ema_ret.ret = ema_ret.value /\ ema_level = ema_ret.value)
        /\ (AlphaInOpenUnit /\ ema_ret.before # None) =>
              /\ Between(ema_ret.before, ema_level, ema_ret.value)
              /\ ema_ret.before # ema_ret.value =>
                    RLt(Dist(ema_level, ema_ret.value),
                        Dist(ema_ret.before, ema_ret.value))
              /\ ema_ret.before = ema_ret.value => ema_level = ema_ret.value

\* C9 witness: the third update with the same input c = 4, after a first update
\* with another value, has moved the level strictly closer to c
C9_Witness ==
    /\ ema_ret.op = "update"
    /\ ema_n = 3
    /\ AlphaInOpenUnit
    /\ ema_ret.value = R(4)
    /\ ema_ret.before # None
    /\ ema_ret.before # R(4)
    /\ RLt(Dist(ema_level, R(4)), Dist(ema_ret.before, R(4)))

----------------------------------------------------------------------------
(* Properties of Kalman1D (checked under SpecKalman). *)

\* q * (r - 1) <= 1: the steady-state variance is at most the unit prior 1.0
\* that the first update stores
SteadyStateBelowPrior == RLe(RMul(kal_q, RSub(kal_r, One)), One)

GainInUnit == kal_ret.k # None => (RLe(Zero, kal_ret.k) /\ RLe(kal_ret.k, One))

\* C7 as stated: for every q > 0 and r > 0, p does not increase from one
\* update to the next after the first update, p >= 0, and the gain is in [0,1].
C7_Original ==
    /\ RLe(Zero, kal_p)
    /\ GainInUnit
    /\ kal_n >= 2 => RLe(kal_p, kal_ret.p_before)

\* C7 amended: for every q > 0 and r > 0, p >= 0 and the gain is in [0,1]; p
\* does not increase from one update to the next after the first update
\* provided q * (r - 1) <= 1.
C7_VarianceMonotone ==
    /\ RLe(Zero, kal_p)
    /\ GainInUnit
    /\ (kal_n >= 2 /\ SteadyStateBelowPrior) => RLe(kal_p, kal_ret.p_before)

\* C7 witness: a third update has lowered p strictly, with a gain inside (0,1)
C7_Witness ==
    /\ kal_n = 3
    /\ SteadyStateBelowPrior
    /\ kal_ret.k # None
    /\ RLt(Zero, kal_ret.k) /\ RLt(kal_ret.k, One)
    /\ RLt(kal_p, kal_ret.p_before)

\* C8 as stated: the first update(z) returns exactly z, sets x = z and sets p
\* to the p the instance was constructed with, with no gain step.
C8_Original ==
    kal_n = 1 =>
        /\ kal_ret.ret = kal_ret.z
        /\ kal_x = kal_ret.z
        /\ kal_ret.k = None
        /\ kal_p = kal_p0

\* C8 amended: the first update(z) returns exactly z, sets x = z and sets p
\* to 1.0, whatever p the instance was constructed with, with no gain step.
C8_ColdStart ==
    kal_n = 1 =>
        /\ kal_ret.ret = kal_ret.z
        /\ kal_x = kal_ret.z
        /\ kal_ret.k = None
        /\ kal_p = One

\* C8 witness: the first update on an instance constructed with p = 5
C8_Witness ==
    /\ kal_n = 1
    /\ kal_p0 = R(5)
    /\ kal_ret.p_before = R(5)
    /\ kal_ret.z = R(3)
    /\ kal_x = R(3)

----------------------------------------------------------------------------
(* Properties of ETAPredictor (checked under SpecETA). *)

Min(a, b) == IF a < b THEN a ELSE b

\* max(0, s) for each of the last k inputs of hist, in arrival order
LastClamped(hist, k) ==
    [i \in 1..k |->
        LET s == hist[Len(hist) - k + i]
        IN  IF s[1] < 0 THEN Zero ELSE s]

\* C3: the retained speeds are max(0, s_i) of the last min(n, window) inputs in
\* arrival order, so there are at most window of them, none negative, and the
\* oldest is the one evicted (window 2, inputs 1,2,3 retain [2,3]);
\* estimate_eta_seconds leaves the retained speeds as they were.
C3_WindowContents ==
    /\ eta_speeds = LastClamped(eta_hist, Min(Len(eta_hist), eta_window))
    /\ Len(eta_speeds) <= eta_window
    /\ \A i \in 1..Len(eta_speeds) : RLe(Zero, eta_speeds[i])
    /\ (eta_window = 2 /\ eta_hist = <<One, R(2), R(3)>>) => eta_speeds = <<R(2), R(3)>>
    /\ eta_ret.op = "estimate" => eta_speeds = eta_ret.before

\* C3 witness: window 2 after update_speed(1), update_speed(2), update_speed(3)
C3_Witness ==
    /\ eta_window = 2
    /\ eta_hist = <<One, R(2), R(3)>>
    /\ eta_speeds = <<R(2), R(3)>>
    /\ eta_ret.op = "update_speed"

\* the indices of the strictly positive speeds of a sequence
PositiveAt(speeds) == {i \in 1..Len(speeds) : speeds[i][1] > 0}

\* sum of 1/speeds[i] over the indices in I
RECURSIVE SumRecip(_, _)
SumRecip(speeds, I) ==
    IF I = {} THEN Zero
    ELSE LET i == CHOOSE j \in I : TRUE
         IN  RAdd(<<speeds[i][2], speeds[i][1]>>, SumRecip(speeds, I \ {i}))

\* C4: estimate_eta_seconds returns remaining_distance / v with v = min_speed
\* when no retained speed is strictly positive and v = max(n / sum(1/s_i),
\* min_speed) over the n strictly positive retained speeds otherwise; v is
\* never below min_speed ([2,8] with distance 32 give 10; no samples with
\* distance 100 give 100 / min_speed).
C4_EtaValue ==
    eta_ret.op = "estimate" =>
        LET pos == PositiveAt(eta_ret.before)
            n   == Cardinality(pos)
            sum == SumRecip(eta_ret.before, pos)
            v   == eta_ret.v
            ms  == eta_ret.min_speed
        IN  /\ RLe(ms, v)
            /\ RMul(eta_ret.ret, v) = eta_ret.dist
            /\ n = 0 => v = ms
            /\ n > 0 => IF RLe(R(n), RMul(ms, sum))
                        THEN v = ms
                        ELSE RMul(v, sum) = R(n)
            /\ (eta_ret.before = <<R(2), R(8)>> /\ eta_ret.dist = R(32)
                    /\ ms = <<1, 20>>) => eta_ret.ret = R(10)
            /\ (eta_ret.before = <<>> /\ eta_ret.dist = R(100)) =>
                    RMul(eta_ret.ret, ms) = R(100)

\* C4 witness: speeds [2,8], distance 32 and the default min_speed give 10
C4_Witness ==
    /\ eta_ret.op = "estimate"
    /\ eta_speeds = <<R(2), R(8)>>
    /\ eta_ret.dist = R(32)
    /\ eta_ret.min_speed = <<1, 20>>
    /\ eta_ret.v = <<16, 5>>
    /\ eta_ret.ret = R(10)

----------------------------------------------------------------------------
(* Properties of RiskHeatmap (checked under SpecGrid). *)

\* the coordinates of the grid's cells
Cells == (0..(rows - 1)) \X (0..(cols - 1))

\* max(0, 1 - decay_per_sec * max(0, now - last))
FactorAt(last, now) ==
    LET d  == IF now > last THEN now - last ELSE 0
        f  == RSub(One, RMul(decay_per_sec, R(d)))
    IN  IF f[1] < 0 THEN Zero ELSE f

\* how many entries of the list cells name the cell <<r, c>>
Occurrences(cells, r, c) ==
    Cardinality({i \in 1..Len(cells) : cells[i] = <<r, c>>})

AllOutOfRange(cells) ==
    \A i \in 1..Len(cells) :
        cells[i][1] < 0 \/ cells[i][1] >= rows \/ cells[i][2] < 0 \/ cells[i][2] >= cols

IsCall == grid_ret.op \in {"get", "reinforce"}

\* the amount the last call added to cell <<r, c>> (nothing for get)
Added(r, c) ==
    IF grid_ret.op = "reinforce"
    THEN RMul(R(Occurrences(grid_ret.cells, r, c)), grid_ret.amount)
    ELSE Zero

\* C1 as stated: after any sequence of reinforce(cells, amount) and get()
\* calls, with any amount and any clock readings, every cell is >= 0.
C1_NonNegative ==
    \A rc \in Cells : RLe(Zero, grid[rc[1]][rc[2]])

\* C5: a get() at a clock reading now with decay_per_sec * (now - last) >= 1
\* returns an all-zero grid whatever the cells held; every get() and
\* reinforce() first multiplies every cell by max(0, 1 - decay_per_sec * dt),
\* dt = max(0, now - last), and sets last_update_time to now.
C5_DecayOnAccess ==
    IsCall =>
        /\ last_ts = grid_ret.now
        /\ \A rc \in Cells :
              grid[rc[1]][rc[2]] =
                  RAdd(RMul(grid_ret.before[rc[1]][rc[2]],
                            FactorAt(grid_ret.last, grid_ret.now)),
                       Added(rc[1], rc[2]))
        /\ (grid_ret.op = "get"
              /\ RLe(One, RMul(decay_per_sec, R(grid_ret.now - grid_ret.last)))) =>
              \A rc \in Cells : grid[rc[1]][rc[2]] = Zero

\* C5 witness: a get() 1 s after the last access, at decay 3/2 per second, has
\* zeroed a grid that held non-zero cells
C5_Witness ==
    /\ grid_ret.op = "get"
    /\ decay_per_sec = <<3, 2>>
    /\ grid_ret.now - grid_ret.last = 1
    /\ \E rc \in Cells : grid_ret.before[rc[1]][rc[2]] # Zero
    /\ \A rc \in Cells : grid[rc[1]][rc[2]] = Zero

\* the last call had amount >= 0 and found no negative cell
NonNegativeCall ==
    /\ RLe(Zero, grid_ret.amount)
    /\ \A rc \in Cells : RLe(Zero, grid_ret.before[rc[1]][rc[2]])

\* C6 as stated: reinforce raises no error for any integer coordinates; a
\* call whose cells are all out of range leaves the grid unchanged; in a mixed
\* call only the in-range cells receive amount.  (Read for calls with
\* amount >= 0 on a grid without negative cells, so that a violation owes
\* nothing to negative amounts.)
C6_Original ==
    (grid_ret.op = "reinforce" /\ NonNegativeCall) =>
        /\ AllOutOfRange(grid_ret.cells) => grid = grid_ret.before
        /\ \A rc \in Cells :
              Occurrences(grid_ret.cells, rc[1], rc[2]) = 0 =>
                  grid[rc[1]][rc[2]] =
                      RMul(grid_ret.before[rc[1]][rc[2]],
                           FactorAt(grid_ret.last, grid_ret.now))

\* C6 amended: reinforce raises no error for any integer coordinates; a call
\* whose cells are all out of range leaves the grid exactly as the decay step
\* of that call leaves it (unchanged when no time has elapsed); in a mixed call
\* only the in-range cells receive amount, once per occurrence in cells, on top
\* of the decayed value, and every other cell holds its decayed value.
C6_OutOfRangeIgnored ==
    grid_ret.op = "reinforce" =>
        /\ DOMAIN grid = 0..(rows - 1)
        /\ \A r \in DOMAIN grid : DOMAIN grid[r] = 0..(cols - 1)
        /\ \A rc \in Cells :
              LET decayed == RMul(grid_ret.before[rc[1]][rc[2]],
                                  FactorAt(grid_ret.last, grid_ret.now))
                  k == Occurrences(grid_ret.cells, rc[1], rc[2])
              IN  /\ k = 0 => grid[rc[1]][rc[2]] = decayed
                  /\ k > 0 => grid[rc[1]][rc[2]] =
                                  RAdd(decayed, RMul(R(k), grid_ret.amount))
        /\ (AllOutOfRange(grid_ret.cells) /\ grid_ret.dt = 0) => grid = grid_ret.before

\* C6 witness: an all-out-of-range reinforce, 1 s after the last access, on a
\* grid with a non-zero cell: the grid is the decayed one, not the one before
C6_Witness ==
    /\ grid_ret.op = "reinforce"
    /\ AllOutOfRange(grid_ret.cells)
    /\ Len(grid_ret.cells) > 0
    /\ grid_ret.dt = 1
    /\ decay_per_sec = <<1, 2>>
    /\ grid_ret.before[1][1] = R(5)
    /\ grid[1][1] = <<5, 2>>

\* C10: at a clock reading not later than last_update_time dt is 0 and nothing
\* decays: get() leaves every cell as it was and reinforce adds exactly amount
\* to each in-range cell named (per occurrence), so two reinforce calls on one
\* cell with no time between them leave it holding the sum of their amounts.
C10_NoDecayWithoutElapsedTime ==
    (IsCall /\ grid_ret.now <= grid_ret.last) =>
        /\ grid_ret.dt = 0
        /\ grid_ret.op = "get" => grid = grid_ret.before
        /\ \A rc \in Cells :
              grid[rc[1]][rc[2]] =
                  RAdd(grid_ret.before[rc[1]][rc[2]], Added(rc[1], rc[2]))
        /\ (grid_n = 2 /\ grid_ret.op = "reinforce" /\ grid_ret.cells = << <<1, 1>> >>
              /\ grid_ret.before[1][1] = R(5) /\ grid_ret.amount = R(-1)) =>
              grid[1][1] = R(4)

\* C10 witness: the second of two reinforce calls on cell (1,1), the clock
\* having gone back in between, on an instance that decays: 5 + 5 = 10
C10_Witness ==
    /\ grid_n = 2
    /\ grid_ret.op = "reinforce"
    /\ grid_ret.now < grid_ret.last
    /\ decay_per_sec = <<1, 2>>
    /\ grid_ret.cells = << <<1, 1>> >>
    /\ grid_ret.amount = R(5)
    /\ grid_ret.before[1][1] = R(5)
    /\ grid[1][1] = R(10)

====
